---------------------------- MODULE Spec2Model ----------------------------
(***************************************************************************)
(* graphql-relay-py: cursor codec, array-connection slicing and the        *)
(* clientMutationId resolver.                                              *)
(*                                                                         *)
(* The library is stateless: every operation is a pure call.  The state of *)
(* the model is the call in hand (`call`) and what it produced (`result`); *)
(* there is one action per public operation, taken when no call is in      *)
(* hand, and Return hands the result to the caller.                        *)
(*                                                                         *)
(* Python values:                                                          *)
(*   - str is a sequence of character codes (ASCII);                       *)
(*   - Optional[T] is a sequence of length <= 1: None is <<>>, a present   *)
(*     value x is <<x>>;                                                   *)
(*   - what a call gives is a record: [kind |-> <exception class>, ...]    *)
(*     for a raised exception, and else the value returned under its kind. *)
(***************************************************************************)
EXTENDS Integers, Sequences, FiniteSets, TLC

VARIABLES call, result, traversal

vars == <<call, result, traversal>>

---------------------------------------------------------------------------
(* Bounds of the model *)

\* longest array_slice handed to the connection functions
MaxLen == 3

\* largest slice_start
MaxSliceStart == 2

\* largest `first` / `last`
MaxCount == 3

\* how far array_length may exceed slice_start + len(array_slice)
MaxExtra == 1

\* largest offset handed to offset_to_cursor
MaxOffset == 120

\* the integers written after a prefix in the cursors handed to
\* cursor_to_offset: -MaxNegative..MaxRemainder
MaxRemainder == 12

MaxNegative == 3

\* most calls of one forward traversal
MaxCalls == 5

---------------------------------------------------------------------------
(* Python values *)

None == <<>>

Some(x) == <<x>>

IsNone(o) == o = <<>>

\* `if x` for an Optional[int]: None and 0 are falsy
TruthyInt(o) == o # <<>> /\ o[1] # 0

\* `if s` for an Optional[str]: None and "" are falsy
TruthyStr(o) == o # <<>> /\ o[1] # <<>>

Max(a, b) == IF a >= b THEN a ELSE b

Min(a, b) == IF a <= b THEN a ELSE b

\* seq[i:j] of Python, i and j integers: negative indices count from the end
\* and both are clamped to the sequence
PySlice(s, i, j) ==
    LET n  == Len(s)
        lo == IF i < 0 THEN Max(i + n, 0) ELSE Min(i, n)
        hi == IF j < 0 THEN Max(j + n, 0) ELSE Min(j, n)
    IN  IF lo < hi THEN SubSeq(s, lo + 1, hi) ELSE <<>>

\* s[i:] of Python
PySliceFrom(s, i) == PySlice(s, i, Len(s))

---------------------------------------------------------------------------
(* str(int) and int(str) *)

RECURSIVE Digits(_)
Digits(n) ==
    IF n < 10 THEN <<48 + n>> ELSE Digits(n \div 10) \o <<48 + (n % 10)>>

\* f"{offset}": the decimal text of an integer
PyStr(n) == IF n < 0 THEN <<45>> \o Digits(-n) ELSE Digits(n)

IsDigit(c) == c >= 48 /\ c <= 57

\* str.isspace for the ASCII range
IsSpace(c) == c \in {9, 10, 11, 12, 13, 28, 29, 30, 31, 32}

RECURSIVE LStrip(_)
LStrip(s) == IF s # <<>> /\ IsSpace(Head(s)) THEN LStrip(Tail(s)) ELSE s

RECURSIVE RStrip(_)
RStrip(s) ==
    IF s # <<>> /\ IsSpace(s[Len(s)]) THEN RStrip(SubSeq(s, 1, Len(s) - 1)) ELSE s

\* digits, single underscores allowed between two digits
DigitBody(s) ==
    /\ s # <<>>
    /\ IsDigit(s[1])
    /\ IsDigit(s[Len(s)])
    /\ \A i \in 1..Len(s) : IsDigit(s[i]) \/ s[i] = 95
    /\ \A i \in 1..(Len(s) - 1) : ~(s[i] = 95 /\ s[i + 1] = 95)

RECURSIVE DigitValue(_, _)
DigitValue(s, acc) ==
    IF s = <<>> THEN acc
    ELSE IF Head(s) = 95 THEN DigitValue(Tail(s), acc)
    ELSE DigitValue(Tail(s), 10 * acc + (Head(s) - 48))

\* the digits of an integer literal, read with the sign given (45 is "-")
ParseDigits(sign, body) ==
    IF ~DigitBody(body) THEN None
    ELSE IF sign = 45 THEN Some(-DigitValue(body, 0))
    ELSE Some(DigitValue(body, 0))

\* an integer literal without the white space around it: an optional sign,
\* then the digits
ParseSigned(t) ==
    IF t # <<>> /\ Head(t) \in {43, 45} THEN ParseDigits(Head(t), Tail(t))
    ELSE ParseDigits(43, t)

\* int(text): Some(value), or None where Python raises ValueError
PyInt(text) == ParseSigned(RStrip(LStrip(text)))

---------------------------------------------------------------------------
(* utils.base64: base64 / unbase64 over UTF-8 *)

\* the base64 alphabet: sextet value -> character code
B64Char(v) ==
    IF v < 26 THEN 65 + v
    ELSE IF v < 52 THEN 97 + (v - 26)
    ELSE IF v < 62 THEN 48 + (v - 52)
    ELSE IF v = 62 THEN 43 ELSE 47

\* character code -> Some(sextet value), None for a character outside the alphabet
B64Value(c) ==
    IF c >= 65 /\ c <= 90 THEN Some(c - 65)
    ELSE IF c >= 97 /\ c <= 122 THEN Some(c - 97 + 26)
    ELSE IF c >= 48 /\ c <= 57 THEN Some(c - 48 + 52)
    ELSE IF c = 43 THEN Some(62)
    ELSE IF c = 47 THEN Some(63)
    ELSE None

RECURSIVE B64Encode(_)
B64Encode(bytes) ==
    IF bytes = <<>> THEN <<>>
    ELSE IF Len(bytes) = 1 THEN
        << B64Char(bytes[1] \div 4), B64Char((bytes[1] % 4) * 16), 61, 61 >>
    ELSE IF Len(bytes) = 2 THEN
        << B64Char(bytes[1] \div 4),
           B64Char((bytes[1] % 4) * 16 + (bytes[2] \div 16)),
           B64Char((bytes[2] % 16) * 4), 61 >>
    ELSE
        << B64Char(bytes[1] \div 4),
           B64Char((bytes[1] % 4) * 16 + (bytes[2] \div 16)),
           B64Char((bytes[2] % 16) * 4 + (bytes[3] \div 64)),
           B64Char(bytes[3] % 64) >> \o B64Encode(SubSeq(bytes, 4, Len(bytes)))

\* the sextets a non-strict decoder collects: characters outside the alphabet
\* are skipped, padding that completes a quad ends the input.
\* [ok, sextets]; ok is FALSE where the decoder raises binascii.Error
RECURSIVE B64Scan(_, _, _)
B64Scan(chars, sx, pads) ==
    LET quad == Len(sx) % 4 IN
    IF chars = <<>> THEN [ok |-> quad = 0, sextets |-> sx]
    ELSE IF Head(chars) = 61 THEN
        IF quad >= 2 /\ quad + pads + 1 >= 4 THEN [ok |-> TRUE, sextets |-> sx]
        ELSE B64Scan(Tail(chars), sx, IF quad >= 2 THEN pads + 1 ELSE pads)
    ELSE IF IsNone(B64Value(Head(chars))) THEN B64Scan(Tail(chars), sx, pads)
    ELSE B64Scan(Tail(chars), Append(sx, B64Value(Head(chars))[1]), 0)

RECURSIVE SextetsToBytes(_)
SextetsToBytes(sx) ==
    IF Len(sx) < 2 THEN <<>>
    ELSE IF Len(sx) = 2 THEN << sx[1] * 4 + (sx[2] \div 16) >>
    ELSE IF Len(sx) = 3 THEN
        << sx[1] * 4 + (sx[2] \div 16), (sx[2] % 16) * 16 + (sx[3] \div 4) >>
    ELSE
        << sx[1] * 4 + (sx[2] \div 16),
           (sx[2] % 16) * 16 + (sx[3] \div 4),
           (sx[3] % 4) * 64 + sx[4] >> \o SextetsToBytes(SubSeq(sx, 5, Len(sx)))

\* bytes.decode("utf-8") on the modelled range: ASCII text decodes to itself,
\* any byte >= 128 is taken as an invalid sequence (UnicodeDecodeError);
\* Some(text), or None for the error
Utf8Decode(bytes) ==
    IF \A i \in 1..Len(bytes) : bytes[i] < 128 THEN Some(bytes) ELSE None

\* b64decode, then decode("utf-8"), of what the decoder collected
DecodeScan(scan) ==
    IF ~scan.ok THEN None ELSE Utf8Decode(SextetsToBytes(scan.sextets))

\* base64(s): b64encode(s.encode("utf-8")).decode("utf-8")
base64(s) == B64Encode(s)

\* unbase64(s): b64decode(s).decode("utf-8");
\* Some(text), or None where a ValueError (binascii.Error, UnicodeDecodeError)
\* is raised
unbase64(s) == DecodeScan(B64Scan(s, <<>>, 0))

---------------------------------------------------------------------------
(* connection.array_connection: the cursor codec *)

\* "arrayconnection:"
PREFIX == <<97, 114, 114, 97, 121, 99, 111, 110, 110, 101, 99, 116, 105, 111, 110, 58>>

\* a bug: the prefix is left out of the cursor
Mutant_offset_to_cursor(offset) == base64(PyStr(offset))

offset_to_cursor(offset) == base64(PREFIX \o PyStr(offset))

\* a bug: one character too many is dropped
Mutant_offset_of_text(text) ==
    IF IsNone(text) THEN None ELSE PyInt(PySliceFrom(text[1], Len(PREFIX) + 1))

\* int(text[len(PREFIX):]) inside the try: text is what unbase64 gave, None
\* for its ValueError; the ValueError of int() gives None as well
offset_of_text(text) ==
    IF IsNone(text) THEN None ELSE PyInt(PySliceFrom(text[1], Len(PREFIX)))

\* Optional[int]
cursor_to_offset(cursor) == offset_of_text(unbase64(cursor))

---------------------------------------------------------------------------
(* connection.array_connection: the connection functions *)

\* raise ValueError(message)
Raise(message) == [kind |-> "ValueError", message |-> message]

Edge(node, cursor) == [node |-> node, cursor |-> cursor]

PageInfo(startCursor, endCursor, hasPreviousPage, hasNextPage) ==
    [startCursor |-> startCursor, endCursor |-> endCursor,
     hasPreviousPage |-> hasPreviousPage, hasNextPage |-> hasNextPage]

Connection(edges, pageInfo) ==
    [kind |-> "Connection", edges |-> edges, pageInfo |-> pageInfo]

\* [edge_type(node, offset_to_cursor(start_offset + index))
\*  for index, node in enumerate(trimmed_slice)]
MakeEdges(trimmed_slice, start_offset) ==
    [ i \in 1..Len(trimmed_slice) |->
        Edge(trimmed_slice[i], offset_to_cursor(start_offset + (i - 1))) ]

\* the (edges, has_previous_page, has_next_page) a handler returns
Handled(edges, has_previous_page, has_next_page) ==
    [kind |-> "handled", edges |-> edges,
     has_previous_page |-> has_previous_page, has_next_page |-> has_next_page]

\* cursor_to_offset(cursor) if cursor else None
cursor_arg_offset(cursor) ==
    IF TruthyStr(cursor) THEN cursor_to_offset(cursor[1]) ELSE None

\* a bug: the page starts at the `after` cursor, not right past it
Mutant_first_after_start_offset(slice_start, after_offset, array_length) ==
    IF ~IsNone(array_length) /\ ~IsNone(after_offset) /\ after_offset[1] > array_length[1]
    THEN 0
    ELSE Max(slice_start, IF IsNone(after_offset) THEN 0 ELSE after_offset[1])

\* start_offset of _handle_first_after: right past the `after` cursor, the
\* start of the slice without one, 0 for an `after` beyond the array length
first_after_start_offset(slice_start, after_offset, array_length) ==
    IF ~IsNone(array_length) /\ ~IsNone(after_offset) /\ after_offset[1] > array_length[1]
    THEN 0
    ELSE Max(slice_start, IF IsNone(after_offset) THEN 0 ELSE after_offset[1] + 1)

\* end_offset of _handle_first_after: start_offset + first, cut at the array
\* length where that is known
first_after_end_offset(start_offset, first, array_length) ==
    IF ~IsNone(array_length) /\ start_offset + first > array_length[1]
    THEN array_length[1]
    ELSE start_offset + first

\* a bug: a page that ends the array reports a next page
Mutant_first_after_has_next_page(array_length, first, after_offset) ==
    LET first_edge_offset ==
            IF ~IsNone(after_offset) /\ 0 <= after_offset[1] /\ after_offset[1] < array_length
            THEN after_offset[1] + 1
            ELSE 0
        last_edge_offset == array_length - 1
    IN  last_edge_offset - first_edge_offset + 1 >= first

\* has_next_page of _handle_first_after where the array length is known
first_after_has_next_page(array_length, first, after_offset) ==
    LET first_edge_offset ==
            IF ~IsNone(after_offset) /\ 0 <= after_offset[1] /\ after_offset[1] < array_length
            THEN after_offset[1] + 1
            ELSE 0
        last_edge_offset == array_length - 1
    IN  last_edge_offset - first_edge_offset + 1 > first

\* a bug: the `after` cursor beyond the array length is not looked at
Mutant_first_after_has_previous_page(start_offset, after_offset, array_length) ==
    start_offset > 0

\* has_previous_page of _handle_first_after
first_after_has_previous_page(start_offset, after_offset, array_length) ==
    IF ~IsNone(array_length) /\ ~IsNone(after_offset) /\ after_offset[1] > array_length[1]
    THEN TRUE
    ELSE start_offset > 0

\* the array length is unknown: intermediate_slice holds one more element than
\* will be returned, and is trimmed to the page
first_after_overfetched(intermediate_slice, start_offset, end_offset) ==
    Handled(MakeEdges(PySlice(intermediate_slice, 0, end_offset - start_offset), start_offset),
            start_offset > 0,
            Len(intermediate_slice) > Len(PySlice(intermediate_slice, 0, end_offset - start_offset)))

\* _handle_first_after from the slicing on
first_after_page(array_slice, array_length, first, after_offset, slice_start, start_offset, end_offset) ==
    IF IsNone(array_length)
    THEN first_after_overfetched(
             PySlice(array_slice, start_offset - slice_start, end_offset - slice_start + 1),
             start_offset, end_offset)
    ELSE Handled(MakeEdges(PySlice(array_slice, start_offset - slice_start, end_offset - slice_start), start_offset),
                 first_after_has_previous_page(start_offset, after_offset, array_length),
                 first_after_has_next_page(array_length[1], first, after_offset))

\* _handle_first_after from the start_offset on
first_after_window(array_slice, array_length, first, after_offset, slice_start, start_offset) ==
    first_after_page(array_slice, array_length, first, after_offset, slice_start, start_offset,
                     first_after_end_offset(start_offset, first, array_length))

\* _handle_first_after from the decoded `after` on
first_after_from(array_slice, array_length, first, after_offset, slice_start) ==
    first_after_window(array_slice, array_length, first, after_offset, slice_start,
                       first_after_start_offset(slice_start, after_offset, array_length))

\* array_length: Optional[int], first: int, after: Optional[str]
_handle_first_after(array_slice, array_length, first, after, slice_start) ==
    IF first < 0
    THEN Raise("Argument 'first' must be a non-negative integer.")
    ELSE first_after_from(array_slice, array_length, first, cursor_arg_offset(after), slice_start)

\* end_offset of _handle_last_before: the `before` cursor cut at the array
\* length, the array length without one or for a negative one
last_before_end_offset(before_offset, array_length) ==
    IF ~IsNone(before_offset) /\ before_offset[1] >= 0
    THEN Min(before_offset[1], array_length)
    ELSE array_length

\* start_offset of _handle_last_before
last_before_start_offset(end_offset, last, slice_start) ==
    Max(end_offset - last, Max(slice_start, 0))

\* has_next_page of _handle_last_before
last_before_has_next_page(end_offset, before_offset, array_length) ==
    IF ~IsNone(before_offset) /\ before_offset[1] < 0
    THEN TRUE
    ELSE end_offset < array_length

\* _handle_last_before from the slicing on
last_before_page(array_slice, array_length, before_offset, slice_start, start_offset, end_offset) ==
    Handled(MakeEdges(PySlice(array_slice, start_offset - slice_start, end_offset - slice_start), start_offset),
            start_offset > 0,
            last_before_has_next_page(end_offset, before_offset, array_length))

\* _handle_last_before from the end_offset on
last_before_window(array_slice, array_length, last, before_offset, slice_start, end_offset) ==
    last_before_page(array_slice, array_length, before_offset, slice_start,
                     last_before_start_offset(end_offset, last, slice_start), end_offset)

\* _handle_last_before from the decoded `before` and the array length on
last_before_from(array_slice, array_length, last, before_offset, slice_start) ==
    last_before_window(array_slice, array_length, last, before_offset, slice_start,
                       last_before_end_offset(before_offset, array_length))

\* array_length: Optional[int], last: int, before: Optional[str]
_handle_last_before(array_slice, array_length, last, before, slice_start) ==
    IF last < 0
    THEN Raise("Argument 'last' must be a non-negative integer.")
    ELSE last_before_from(array_slice,
                          IF IsNone(array_length) THEN Len(array_slice) ELSE array_length[1],
                          last, cursor_arg_offset(before), slice_start)

\* the connection of what a handler returned; a handler's error goes through
connection_of(handled) ==
    IF handled.kind # "handled" THEN handled
    ELSE Connection(handled.edges,
                    PageInfo(IF handled.edges # <<>>
                             THEN Some(handled.edges[1].cursor) ELSE None,
                             IF handled.edges # <<>>
                             THEN Some(handled.edges[Len(handled.edges)].cursor) ELSE None,
                             handled.has_previous_page, handled.has_next_page))

\* the handler is chosen: `last` and `before` where there is a `last`, else
\* `first` and `after`
handle(array_slice, array_length, first, last, after, before, slice_start) ==
    IF ~IsNone(last)
    THEN _handle_last_before(array_slice, array_length, last[1], before, slice_start)
    ELSE IF IsNone(first)
    THEN [kind |-> "AssertionError"]
    ELSE _handle_first_after(array_slice, array_length, first[1], after, slice_start)

\* a bug: a call without `first` asks for no element
Mutant_default_first(array_slice, array_length) == Some(0)

\* `first` where it is left out: the array length, measured on the slice
\* where it was not given
default_first(array_slice, array_length) ==
    IF ~IsNone(array_length) THEN array_length ELSE Some(Len(array_slice))

\* connection_from_array_slice past the checks of the arguments;
\* array_length is array_slice_length where that was given
with_defaults(array_slice, args, slice_start, array_length) ==
    LET defaulted == IsNone(args.first) /\ (TruthyStr(args.after) \/ IsNone(args.last))
        length == IF defaulted /\ IsNone(array_length)
                  THEN Some(Len(array_slice)) ELSE array_length
        first == IF defaulted THEN default_first(array_slice, array_length) ELSE args.first
        last == IF IsNone(args.last) /\ TruthyStr(args.before) THEN length ELSE args.last
    IN  connection_of(handle(array_slice, length, first, last, args.after, args.before, slice_start))

\* args: [first, after, last, before], each Optional (a missing key and None
\* read the same through args.get); array_length, array_slice_length: Optional[int]
connection_from_array_slice(array_slice, args, slice_start, array_length, array_slice_length) ==
    IF TruthyInt(args.first) /\ TruthyInt(args.last)
    THEN Raise("Mixing 'first' and 'last' is not supported.")
    ELSE IF TruthyStr(args.before) /\ TruthyStr(args.after)
    THEN Raise("Mixing 'before' and 'after' is not supported.")
    ELSE IF TruthyInt(args.first) /\ TruthyStr(args.before)
    THEN Raise("Mixing 'first' and 'before' is not supported.")
    ELSE IF TruthyInt(args.last) /\ TruthyStr(args.after)
    THEN Raise("Mixing 'last' and 'after' is not supported.")
    ELSE with_defaults(array_slice, args, slice_start,
                       IF ~IsNone(array_slice_length) THEN array_slice_length ELSE array_length)

connection_from_array(data, args) ==
    connection_from_array_slice(data, args, 0, Some(Len(data)), None)

---------------------------------------------------------------------------
(* mutation.mutation: the resolver of mutation_with_client_mutation_id *)

\* A payload is Optional: None, or an object [type, ident, fields].  type is
\* "object" (attributes can be set) or "dict"; ident is the object's identity;
\* fields are its attributes (its keys, for a dict), clientMutationId among
\* them: None where the object has none.

NullResult(clientMutationId) ==
    [type |-> "object", class |-> "NullResult", ident |-> 0,
     fields |-> [value |-> None, clientMutationId |-> Some(clientMutationId)]]

\* payload.clientMutationId = clientMutationId: a dict has no such attribute
\* and cannot be given one
SetClientMutationId(payload, clientMutationId) ==
    IF payload.type = "dict"
    THEN [kind |-> "AttributeError"]
    ELSE [kind |-> "returned",
          payload |-> [payload EXCEPT !.fields.clientMutationId = Some(clientMutationId)]]

\* the resolver built for a coroutine function; payload is what
\* `await mutate_and_get_payload(info, **input)` gave
resolve_async(input, payload) ==
    IF IsNone(input.clientMutationId)
    THEN [kind |-> "GraphQLError"]
    ELSE IF IsNone(payload)
    THEN [kind |-> "returned", payload |-> NullResult(input.clientMutationId[1])]
    ELSE SetClientMutationId(payload[1], input.clientMutationId[1])

\* the resolver built for a plain function; payload is what
\* `mutate_and_get_payload(info, **input)` gave
resolve_sync(input, payload) ==
    IF IsNone(input.clientMutationId)
    THEN [kind |-> "GraphQLError"]
    ELSE IF IsNone(payload)
    THEN [kind |-> "returned", payload |-> NullResult(input.clientMutationId[1])]
    ELSE SetClientMutationId(payload[1], input.clientMutationId[1])

\* the `resolve` of the returned field
resolve(is_coroutine_function, input, payload) ==
    IF is_coroutine_function
    THEN resolve_async(input, payload)
    ELSE resolve_sync(input, payload)

---------------------------------------------------------------------------
(* Inputs of the resolver *)

\* clientMutationId of the input: None where the key is missing
ClientMutationIds == {None, Some("abc"), Some("def"), Some("")}

Inputs == [clientMutationId : ClientMutationIds, value : {1, 2}]

\* what mutate_and_get_payload returns: None, an object or a dict, with or
\* without a clientMutationId of its own
Payloads ==
    {None} \cup
    { Some([type |-> t, class |-> "Result", ident |-> i,
            fields |-> [value |-> Some(v), clientMutationId |-> c]]) :
        t \in {"object", "dict"}, i \in {1, 2}, v \in {1, 2},
        c \in {None, Some("old")} }

---------------------------------------------------------------------------
(* Inputs of the codec *)

\* "xrrayconnection:", a prefix of the same length
OtherPrefix == <<120>> \o Tail(PREFIX)

\* remainders that follow a prefix in a decoded cursor
Remainders ==
    { PyStr(o) : o \in (-MaxNegative)..MaxRemainder } \cup
    { <<>>, <<120>>, <<53, 120>>, <<45>>, <<45, 45, 49>>, <<43, 53>>,
      <<32, 53, 32>>, <<49, 95, 48>>, <<49, 95, 95, 48>>, <<95, 49>>,
      <<49, 46, 53>> }

\* decoded texts of the cursors tried
Texts ==
    { PREFIX \o r : r \in Remainders } \cup
    { OtherPrefix \o r : r \in Remainders } \cup
    { r : r \in Remainders } \cup
    { SubSeq(PREFIX, 1, 15) \o <<53>>, PREFIX \o PREFIX \o <<53>> }

\* cursor strings that are no clean base64: "", "YQ", "Y", "!!!", "/w==" (byte
\* 0xFF), "YQ=", and a good cursor with a character outside the alphabet in it
RawCursors ==
    { <<>>, <<89, 81>>, <<89>>, <<33, 33, 33>>, <<47, 119, 61, 61>>,
      <<89, 81, 61>>, <<33>> \o base64(PREFIX \o <<53>>) }

Cursors == { base64(t) : t \in Texts } \cup RawCursors

---------------------------------------------------------------------------
(* Inputs of the connection functions *)

\* the element at absolute offset p of the full result set
Element(p) == [element |-> p]

\* the slice of the full result set that starts at offset start and holds n
\* elements
ResultSlice(start, n) == [ i \in 1..n |-> Element(start + (i - 1)) ]

\* array_length as a caller that follows the docstring gives it: left out, or
\* the length of a full result set that holds the slice
ArrayLengths(start, n) == {None} \cup { Some(start + n + e) : e \in 0..MaxExtra }

\* array_slice_length is the length of array_slice and is read as the length of
\* the result set, so it is given for a slice that is the whole result set
ArraySliceLengths(start, n, array_length) ==
    {None} \cup (IF start = 0 /\ array_length \in {None, Some(n)} THEN {Some(n)} ELSE {})

\* first / last: left out, negative, zero, positive
Counts == {None} \cup { Some(k) : k \in -1..MaxCount }

\* "!!!": not base64
Garbage == <<33, 33, 33>>

\* a cursor that decodes to -1
NegativeCursor == base64(PREFIX \o PyStr(-1))

\* after / before for a result set of `total` elements: left out, "", not a
\* cursor, a negative offset, every offset of the set and two past its end
ArgCursors(total) ==
    {None, Some(<<>>), Some(Garbage), Some(NegativeCursor)} \cup
    { Some(offset_to_cursor(p)) : p \in 0..(total + 1) }

Args(first, after, last, before) ==
    [first |-> first, after |-> after, last |-> last, before |-> before]

\* the length of the result set a call is about: array_length where it is
\* given, and else the slice is taken to end the result set
TotalLength(array_slice, slice_start, array_length) ==
    IF IsNone(array_length) THEN slice_start + Len(array_slice) ELSE array_length[1]

---------------------------------------------------------------------------
(* The state machine *)

Idle == call.op = "none"

\* no forward traversal is under way
NoTraversal == [active |-> FALSE]

Init ==
    /\ call = [op |-> "none"]
    /\ result = [kind |-> "none"]
    /\ traversal = NoTraversal

OffsetToCursor ==
    /\ Idle
    /\ \E o \in 0..MaxOffset :
        /\ call' = [op |-> "offset_to_cursor", offset |-> o]
        /\ result' = [kind |-> "cursor", cursor |-> offset_to_cursor(o)]
    /\ traversal' = NoTraversal

CursorToOffset ==
    /\ Idle
    /\ \E c \in Cursors :
        /\ call' = [op |-> "cursor_to_offset", cursor |-> c]
        /\ result' = [kind |-> "offset", offset |-> cursor_to_offset(c)]
    /\ traversal' = NoTraversal

ConnectionFromArraySlice ==
    /\ Idle
    /\ \E n \in 0..MaxLen, slice_start \in 0..MaxSliceStart :
         \E array_length \in ArrayLengths(slice_start, n) :
           \E array_slice_length \in ArraySliceLengths(slice_start, n, array_length) :
             \E first \in Counts, last \in Counts :
               LET array_slice == ResultSlice(slice_start, n)
                   total == TotalLength(array_slice, slice_start, array_length)
               IN  \E after \in ArgCursors(total), before \in ArgCursors(total) :
                     LET args == Args(first, after, last, before) IN
                       /\ call' = [op |-> "connection_from_array_slice",
                                   array_slice |-> array_slice, args |-> args,
                                   slice_start |-> slice_start,
                                   array_length |-> array_length,
                                   array_slice_length |-> array_slice_length]
                       /\ result' = connection_from_array_slice(array_slice, args, slice_start, array_length, array_slice_length)
    /\ traversal' = NoTraversal

ConnectionFromArray ==
    /\ Idle
    /\ \E n \in 0..MaxLen :
         \E first \in Counts, last \in Counts :
           \E after \in ArgCursors(n), before \in ArgCursors(n) :
             LET data == ResultSlice(0, n)
                 args == Args(first, after, last, before)
             IN  /\ call' = [op |-> "connection_from_array", data |-> data, args |-> args]
                 /\ result' = connection_from_array(data, args)
    /\ traversal' = NoTraversal

Resolve ==
    /\ Idle
    /\ \E is_coroutine_function \in BOOLEAN, input \in Inputs, payload \in Payloads :
         /\ call' = [op |-> "resolve",
                     is_coroutine_function |-> is_coroutine_function,
                     input |-> input, payload |-> payload]
         /\ result' = resolve(is_coroutine_function, input, payload)
    /\ traversal' = NoTraversal

\* the nodes of the edges of a connection, in order
NodesOf(connection) == [ i \in 1..Len(connection.edges) |-> connection.edges[i].node ]

\* one call of a forward traversal: connection_from_array(data, args), the
\* nodes of its page added to those of the pages before
TraversalCall(data, first, args, calls, nodes) ==
    /\ call' = [op |-> "connection_from_array", data |-> data, args |-> args]
    /\ result' = connection_from_array(data, args)
    /\ traversal' = [active |-> TRUE, data |-> data, first |-> first, calls |-> calls + 1,
                      nodes |-> nodes \o NodesOf(connection_from_array(data, args))]

\* a caller starts to page forward through data: {first: k}
TraverseFirst ==
    /\ Idle
    /\ \E n \in 0..MaxLen, k \in 1..MaxCount :
         TraversalCall(ResultSlice(0, n), k, Args(Some(k), None, None, None), 0, <<>>)

\* the page before reported hasNextPage: {first: k, after: its endCursor}
TraverseNext ==
    /\ traversal.active
    /\ traversal.calls < MaxCalls
    /\ result.pageInfo.hasNextPage
    /\ TraversalCall(traversal.data, traversal.first,
                     Args(Some(traversal.first), result.pageInfo.endCursor, None, None),
                     traversal.calls, traversal.nodes)

\* the caller takes the result; the library keeps nothing of the call
Return ==
    /\ ~Idle
    /\ call' = [op |-> "none"]
    /\ result' = [kind |-> "none"]
    /\ traversal' = NoTraversal

Next ==
    \/ OffsetToCursor
    \/ CursorToOffset
    \/ ConnectionFromArraySlice
    \/ ConnectionFromArray
    \/ Resolve
    \/ TraverseFirst
    \/ TraverseNext
    \/ Return

Spec == Init /\ [][Next]_vars

---------------------------------------------------------------------------
(* What the claims speak of *)

IsSliceCall == call.op = "connection_from_array_slice"

IsArrayCall == call.op = "connection_from_array"

IsConnectionCall == IsSliceCall \/ IsArrayCall

\* the call in hand gave a connection
Returned == IsConnectionCall /\ result.kind = "Connection"

\* the slice, its start and the array length of the connection call in hand
CallSlice == IF IsArrayCall THEN call.data ELSE call.array_slice

CallStart == IF IsArrayCall THEN 0 ELSE call.slice_start

CallArrayLength == IF IsArrayCall THEN Some(Len(call.data)) ELSE call.array_length

\* the number of elements of the full result set
CallTotal == TotalLength(CallSlice, CallStart, CallArrayLength)

\* the absolute offset, in the full result set, of the node an edge holds
EdgeOffset(edge) == edge.node.element

\* the offset an `after` / `before` argument decodes to, None for none
ArgOffset(cursor) == IF IsNone(cursor) THEN None ELSE cursor_to_offset(cursor[1])

PureForward(args) == IsNone(args.last) /\ IsNone(args.before)

PureBackward(args) ==
    /\ IsNone(args.first) /\ IsNone(args.after)
    /\ ~(IsNone(args.last) /\ IsNone(args.before))

---------------------------------------------------------------------------
(* C1 *)

\* connection_from_array with valid forward arguments: first >= 0, no last,
\* no before, and an `after`, if any, that decodes to an integer
C1_Forward ==
    /\ IsArrayCall
    /\ ~IsNone(call.args.first) /\ call.args.first[1] >= 0
    /\ IsNone(call.args.last) /\ IsNone(call.args.before)
    /\ (IsNone(call.args.after) \/ ~IsNone(ArgOffset(call.args.after)))

C1_Count(first, n, start_offset) ==
    /\ Returned
    /\ Len(result.edges) <= first
    /\ Len(result.edges) = Min(first, n - start_offset)

C1_ClaimedStart(after_offset) == IF IsNone(after_offset) THEN 0 ELSE after_offset[1] + 1

\* C1 as stated: the number of edges connection_from_array returns for valid
\* forward arguments is at most first and equals min(first, n - start_offset),
\* start_offset being 0 without `after` and after_offset + 1 with it.
C1_EdgeCountAsStated ==
    C1_Forward =>
        C1_Count(call.args.first[1], Len(call.data),
                 C1_ClaimedStart(ArgOffset(call.args.after)))

C1_CodeStart(after_offset, n) ==
    IF IsNone(after_offset) \/ after_offset[1] > n THEN 0
    ELSE Min(n, Max(0, after_offset[1] + 1))

\* C1 amended: the number of edges is at most first and equals
\* min(first, n - start_offset), start_offset being 0 without `after` or with
\* an after_offset greater than n, and else after_offset + 1 kept within 0..n.
C1_EdgeCount ==
    C1_Forward =>
        C1_Count(call.args.first[1], Len(call.data),
                 C1_CodeStart(ArgOffset(call.args.after), Len(call.data)))

\* an `after` beyond the array: the page restarts at offset 0
C1_Witness ==
    /\ C1_Forward
    /\ ~IsNone(call.args.after)
    /\ ArgOffset(call.args.after)[1] > Len(call.data)
    /\ Returned
    /\ Len(result.edges) >= 2

---------------------------------------------------------------------------
(* C2 *)

\* where the page window starts, and where it stops, by the arguments
C2_ForwardStart(slice_start, after_offset) ==
    Max(slice_start, IF IsNone(after_offset) THEN 0 ELSE after_offset[1] + 1)

C2_ForwardStop(start, first, total) ==
    Min(total, start + (IF IsNone(first) THEN total ELSE first[1]))

C2_BackwardStop(before_offset, total) ==
    IF IsNone(before_offset) THEN total ELSE Max(0, Min(before_offset[1], total))

C2_BackwardStart(stop, last, slice_start, total) ==
    Max(stop - (IF IsNone(last) THEN total ELSE last[1]), slice_start)

C2_WindowStart(args, slice_start, total) ==
    IF PureForward(args)
    THEN C2_ForwardStart(slice_start, ArgOffset(args.after))
    ELSE C2_BackwardStart(C2_BackwardStop(ArgOffset(args.before), total),
                          args.last, slice_start, total)

C2_WindowStop(args, slice_start, total) ==
    IF PureForward(args)
    THEN C2_ForwardStop(C2_ForwardStart(slice_start, ArgOffset(args.after)), args.first, total)
    ELSE C2_BackwardStop(ArgOffset(args.before), total)

\* the slice handed in holds the elements of the window asked for, as the
\* docstring of connection_from_array_slice asks of the caller
C2_Covered ==
    C2_WindowStop(call.args, CallStart, CallTotal) <= CallStart + Len(CallSlice)

\* the result set holds an element past the last edge returned; for an empty
\* page: at or past the start of the window
C2_ElementsAfter(edges, window_start, total) ==
    IF edges # <<>>
    THEN EdgeOffset(edges[Len(edges)]) + 1 < total
    ELSE window_start < total

\* C2: for every call of connection_from_array_slice that returns a connection,
\* forward or backward, for a slice that covers the window, hasNextPage is
\* true iff the result set holds an element past the last returned edge.
C2_HasNextPage ==
    ( /\ IsSliceCall
      /\ Returned
      /\ PureForward(call.args) \/ PureBackward(call.args)
      /\ C2_Covered )
    => ( result.pageInfo.hasNextPage <=>
         C2_ElementsAfter(result.edges,
                          C2_WindowStart(call.args, CallStart, CallTotal), CallTotal) )

---------------------------------------------------------------------------
(* C3 *)

C3_NonEmptyPage == IsSliceCall /\ Returned /\ result.edges # <<>>

\* C3 as stated: for every call of connection_from_array_slice that returns at
\* least one edge, hasPreviousPage is true iff the offset of the first
\* returned edge is greater than 0.
C3_HasPreviousPageAsStated ==
    C3_NonEmptyPage =>
        (result.pageInfo.hasPreviousPage <=> EdgeOffset(result.edges[1]) > 0)

\* the array length the handlers work with: array_slice_length, else
\* array_length, else the length of the slice where `first` is left out
C3_LengthInEffect ==
    IF ~IsNone(call.array_slice_length) THEN call.array_slice_length
    ELSE IF ~IsNone(call.array_length) THEN call.array_length
    ELSE IF IsNone(call.args.first) THEN Some(Len(call.array_slice))
    ELSE None

C3_Beyond(after_offset, length) ==
    ~IsNone(after_offset) /\ ~IsNone(length) /\ after_offset[1] > length[1]

\* the page is cut by first/after and `after` decodes to an offset greater than
\* the array length in effect
C3_AfterBeyond ==
    IsNone(call.args.last) /\ C3_Beyond(ArgOffset(call.args.after), C3_LengthInEffect)

\* C3 amended: hasPreviousPage is true iff the offset of the first returned
\* edge is greater than 0, or the call has no `last` and an `after` that decodes
\* to an offset greater than the array length in effect.
C3_HasPreviousPage ==
    C3_NonEmptyPage =>
        ( result.pageInfo.hasPreviousPage <=>
          (EdgeOffset(result.edges[1]) > 0 \/ C3_AfterBeyond) )

\* a page that starts the result set and reports a previous page
C3_Witness ==
    /\ C3_NonEmptyPage
    /\ EdgeOffset(result.edges[1]) = 0
    /\ result.pageInfo.hasPreviousPage
    /\ C3_AfterBeyond

---------------------------------------------------------------------------
(* C4 *)

C4_EdgeAt(edges, i, array_slice, slice_start) ==
    /\ edges[i].cursor = offset_to_cursor(EdgeOffset(edges[i]))
    /\ slice_start <= EdgeOffset(edges[i])
    /\ EdgeOffset(edges[i]) < slice_start + Len(array_slice)
    /\ edges[i].node = array_slice[EdgeOffset(edges[i]) - slice_start + 1]
    /\ i > 1 => EdgeOffset(edges[i - 1]) < EdgeOffset(edges[i])

\* C4: in every connection connection_from_array_slice returns, each edge's
\* cursor is offset_to_cursor(p), p the absolute offset of the edge's node, the
\* node is array_slice[p - slice_start], and the offsets strictly ascend.
C4_CursorsAreNodeOffsets ==
    (IsSliceCall /\ Returned) =>
        \A i \in 1..Len(result.edges) :
            C4_EdgeAt(result.edges, i, call.array_slice, call.slice_start)

---------------------------------------------------------------------------
(* C5 *)

\* C5: whenever the arguments hold both first and last, whatever their values,
\* 0 among them, connection_from_array_slice fails with a validation error.
C5_FirstAndLastRejected ==
    (IsSliceCall /\ ~IsNone(call.args.first) /\ ~IsNone(call.args.last)) =>
        result.kind = "ValueError"

---------------------------------------------------------------------------
(* C6 *)

\* a cursor that fails to decode, or decodes to an offset outside the result set
C6_BadOffset(offset, total) ==
    IsNone(offset) \/ offset[1] < 0 \/ offset[1] >= total

C6_Bad(cursor, total) == ~IsNone(cursor) /\ C6_BadOffset(ArgOffset(cursor), total)

\* the call in hand, with other arguments
C6_CallWith(args) ==
    connection_from_array_slice(call.array_slice, args, call.slice_start, call.array_length, call.array_slice_length)

C6_SamePage(other) ==
    /\ result.kind = "Connection"
    /\ other.kind = "Connection"
    /\ result.edges = other.edges

\* first/after arguments that pass the checks, with a bad `after`
C6_BadAfter ==
    /\ PureForward(call.args)
    /\ IsNone(call.args.first) \/ call.args.first[1] >= 0
    /\ C6_Bad(call.args.after, CallTotal)

\* last/before arguments that pass the checks, with a bad `before`
C6_BadBefore ==
    /\ IsNone(call.args.first) /\ IsNone(call.args.after)
    /\ IsNone(call.args.last) \/ call.args.last[1] >= 0
    /\ C6_Bad(call.args.before, CallTotal)

\* C6: a malformed or out-of-range `after` or `before` never raises an error: a
\* bad `after` gives the page of the same call without `after` (the window
\* starts at slice_start), a bad `before` the page of the same call without
\* `before` (the window ends at the end of the result set).
C6_BadCursorDegrades ==
    IsSliceCall =>
        /\ C6_BadAfter => C6_SamePage(C6_CallWith([call.args EXCEPT !.after = None]))
        /\ C6_BadBefore => C6_SamePage(C6_CallWith([call.args EXCEPT !.before = None]))

---------------------------------------------------------------------------
(* C7 *)

C7_NoArgs ==
    /\ IsConnectionCall
    /\ IsNone(call.args.first) /\ IsNone(call.args.last)
    /\ IsNone(call.args.after) /\ IsNone(call.args.before)

\* C7 as stated: without first, last, after and before the result is the page
\* of first = 0 at slice_start: no edge, no startCursor and endCursor, and
\* hasPreviousPage / hasNextPage tell of elements before / from slice_start on.
C7_EmptyPageAsStated ==
    C7_NoArgs =>
        /\ Returned
        /\ result.edges = <<>>
        /\ result.pageInfo.startCursor = None
        /\ result.pageInfo.endCursor = None
        /\ result.pageInfo.hasPreviousPage = (CallStart > 0)
        /\ result.pageInfo.hasNextPage = (CallStart < CallTotal)

\* the array length in effect without arguments: array_slice_length, else
\* array_length, else the length of the slice
C7_Length ==
    IF IsArrayCall THEN Len(call.data)
    ELSE IF ~IsNone(call.array_slice_length) THEN call.array_slice_length[1]
    ELSE IF ~IsNone(call.array_length) THEN call.array_length[1]
    ELSE Len(call.array_slice)

\* the page of `first` elements at slice_start of an array of array_length
C7_PageOf(first, array_length) ==
    connection_from_array_slice(CallSlice, [first |-> Some(first), after |-> None, last |-> None, before |-> None], CallStart, Some(array_length), None)

C7_WholeSlice(array_slice, slice_start) ==
    /\ result.edges =
         [ i \in 1..Len(array_slice) |->
             Edge(array_slice[i], offset_to_cursor(slice_start + i - 1)) ]
    /\ result.pageInfo.startCursor =
         (IF array_slice = <<>> THEN None ELSE Some(offset_to_cursor(slice_start)))
    /\ result.pageInfo.endCursor =
         (IF array_slice = <<>> THEN None
          ELSE Some(offset_to_cursor(slice_start + Len(array_slice) - 1)))

\* C7 amended: without first, last, after and before the result is the page of
\* first = L at slice_start of an array of length L, L being the array length
\* in effect: hasPreviousPage is slice_start > 0, hasNextPage is false, and
\* where L reaches the end of the slice (it does for connection_from_array)
\* every element of the slice is an edge, startCursor and endCursor being the
\* cursors of the first and the last (absent for an empty slice).
C7_WholeSliceWithoutArgs ==
    C7_NoArgs =>
        /\ Returned
        /\ result = C7_PageOf(C7_Length, C7_Length)
        /\ result.pageInfo.hasPreviousPage = (CallStart > 0)
        /\ result.pageInfo.hasNextPage = FALSE
        /\ C7_Length >= CallStart + Len(CallSlice) => C7_WholeSlice(CallSlice, CallStart)

C7_Witness ==
    /\ C7_NoArgs
    /\ IsSliceCall
    /\ call.slice_start > 0
    /\ Returned
    /\ Len(result.edges) >= 2

---------------------------------------------------------------------------
(* C8 *)

\* C8: cursor_to_offset(offset_to_cursor(o)) = o for every o >= 0, and
\* offset_to_cursor gives distinct cursors for distinct offsets.
C8_RoundTrip ==
    call.op = "offset_to_cursor" =>
        /\ cursor_to_offset(result.cursor) = Some(call.offset)
        /\ \A o \in 0..MaxOffset : o # call.offset => offset_to_cursor(o) # result.cursor

\* an offset of three digits went through
C8_Witness ==
    /\ call.op = "offset_to_cursor"
    /\ call.offset >= 100
    /\ cursor_to_offset(result.cursor) = Some(call.offset)

---------------------------------------------------------------------------
(* C9 *)

\* the text is the prefix, then digits only
C9_PrefixAndDigits(text) ==
    /\ ~IsNone(text)
    /\ Len(text[1]) > Len(PREFIX)
    /\ SubSeq(text[1], 1, Len(PREFIX)) = PREFIX
    /\ \A i \in (Len(PREFIX) + 1)..Len(text[1]) : IsDigit(text[1][i])

\* C9 as stated: cursor_to_offset returns None for every cursor whose decoded
\* text is not the prefix "arrayconnection:" followed by a non-negative
\* decimal integer.
C9_AbsentAsStated ==
    (call.op = "cursor_to_offset" /\ ~C9_PrefixAndDigits(unbase64(call.cursor))) =>
        result.offset = None

\* the integer literals among the remainders tried, with their values:
\* decimal numbers with or without a sign, "+5", " 5 ", "1_0"
C9_IntegerLiterals ==
    { <<PyStr(o), o>> : o \in (-MaxNegative)..MaxRemainder } \cup
    { << <<43, 53>>, 5 >>, << <<32, 53, 32>>, 5 >>, << <<49, 95, 48>>, 10 >> }

\* what follows the first 16 characters of a decoded text
C9_Remainder(text) ==
    IF Len(text) > Len(PREFIX) THEN SubSeq(text, Len(PREFIX) + 1, Len(text)) ELSE <<>>

C9_ValueOf(remainder) ==
    IF \E l \in C9_IntegerLiterals : l[1] = remainder
    THEN Some((CHOOSE l \in C9_IntegerLiterals : l[1] = remainder)[2])
    ELSE None

C9_Expected(text) == IF IsNone(text) THEN None ELSE C9_ValueOf(C9_Remainder(text[1]))

\* C9 amended: cursor_to_offset is total; it returns None for every cursor
\* that is no base64 of UTF-8 text or whose decoded text, without its first 16
\* characters, is no integer literal, and the integer otherwise: the first 16
\* characters are not compared with the prefix, and a sign is read.
C9_AbsentUnlessInteger ==
    call.op = "cursor_to_offset" =>
        /\ result.kind = "offset"
        /\ result.offset = C9_Expected(unbase64(call.cursor))

\* another prefix of the same length, then a digit: decoded
C9_Witness ==
    /\ call.op = "cursor_to_offset"
    /\ call.cursor = base64(OtherPrefix \o <<53>>)
    /\ result.offset = Some(5)

---------------------------------------------------------------------------
(* C10 *)

C10_Carried(payload, returned, clientMutationId) ==
    /\ returned.fields.clientMutationId = clientMutationId
    /\ IsNone(payload) => returned.class = "NullResult"
    /\ ~IsNone(payload) =>
          /\ returned.ident = payload[1].ident
          /\ returned.type = payload[1].type
          /\ returned.fields.value = payload[1].fields.value

\* C10: for every input that holds clientMutationId and every payload of
\* mutate_and_get_payload - None, an object or a dict - the resolver, sync or
\* async, returns a payload that carries the input's clientMutationId: a
\* NullResult for None, the same object otherwise.
C10_ClientMutationIdCarried ==
    (call.op = "resolve" /\ ~IsNone(call.input.clientMutationId)) =>
        /\ result.kind = "returned"
        /\ C10_Carried(call.payload, result.payload, call.input.clientMutationId)

---------------------------------------------------------------------------
(* C11 *)

\* backward arguments that pass the checks: last >= 0 and / or before, no
\* first, no after
C11_Backward ==
    /\ IsSliceCall
    /\ PureBackward(call.args)
    /\ IsNone(call.args.last) \/ call.args.last[1] >= 0

\* end_offset as claimed: the `before` offset kept within 0..L where `before`
\* decodes, L otherwise
C11_EndOffset(before_offset, total) ==
    IF IsNone(before_offset) THEN total ELSE Max(0, Min(before_offset[1], total))

\* start_offset as claimed; without `last` every element before end_offset is
\* asked for
C11_StartOffset(end_offset, last, slice_start, total) ==
    Max(end_offset - (IF IsNone(last) THEN total ELSE last[1]), Max(slice_start, 0))

\* the edges of the nodes at the absolute offsets start_offset..end_offset - 1
C11_EdgesOf(array_slice, slice_start, start_offset, end_offset) ==
    [ i \in 1..Max(0, end_offset - start_offset) |->
        Edge(array_slice[start_offset - slice_start + i],
             offset_to_cursor(start_offset + (i - 1))) ]

C11_Page(before_offset, end_offset, start_offset) ==
    /\ Returned
    /\ result.edges = C11_EdgesOf(CallSlice, CallStart, start_offset, end_offset)
    /\ start_offset >= end_offset => result.edges = <<>>
    /\ ~IsNone(before_offset) =>
          \A i \in 1..Len(result.edges) : EdgeOffset(result.edges[i]) < before_offset[1]

C11_PageFrom(before_offset, end_offset, last, slice_start, total) ==
    (end_offset <= slice_start + Len(CallSlice)) =>
        C11_Page(before_offset, end_offset,
                 C11_StartOffset(end_offset, last, slice_start, total))

\* C11: in backward pagination through connection_from_array_slice, for a
\* slice that holds the window asked for, the edges are the nodes at the
\* absolute offsets [start_offset, end_offset), end_offset being the `before`
\* offset kept within 0..L (L without one) and start_offset
\* max(end_offset - last, max(slice_start, 0)); the page is empty where
\* start_offset >= end_offset, and no edge lies at or past the `before` offset.
C11_BackwardWindow ==
    C11_Backward =>
        C11_PageFrom(ArgOffset(call.args.before),
                     C11_EndOffset(ArgOffset(call.args.before), CallTotal),
                     call.args.last, CallStart, CallTotal)

---------------------------------------------------------------------------
(* C12 *)

\* max(1, ceil(n / k))
C12_Calls(n, k) == Max(1, (n + k - 1) \div k)

\* the pages so far hold the first calls * k elements, each once and in order
C12_Progress(data, k, calls, nodes) ==
    /\ calls <= C12_Calls(Len(data), k)
    /\ nodes = SubSeq(data, 1, Min(Len(data), calls * k))

\* the traversal stops here: the number of calls, and all of the sequence
C12_Complete(data, k, calls, nodes) ==
    /\ calls = C12_Calls(Len(data), k)
    /\ nodes = data

\* C12: paging forward through a sequence of length n with {first: k}, then
\* {first: k, after: endCursor of the page before} while hasNextPage is true,
\* stops after exactly max(1, ceil(n / k)) calls of connection_from_array, and
\* the nodes of the pages, one after the other, are the sequence: every
\* element once, in order, none skipped or repeated.
C12_ForwardTraversal ==
    traversal.active =>
        /\ Returned
        /\ C12_Progress(traversal.data, traversal.first, traversal.calls, traversal.nodes)
        /\ ~result.pageInfo.hasNextPage =>
              C12_Complete(traversal.data, traversal.first, traversal.calls, traversal.nodes)
        /\ result.pageInfo.hasNextPage => traversal.calls < MaxCalls

\* three elements, paged one by one: the third call ends the traversal
C12_Witness ==
    /\ traversal.active
    /\ Len(traversal.data) = 3
    /\ traversal.calls = 3
    /\ ~result.pageInfo.hasNextPage
    /\ traversal.nodes = traversal.data

=============================================================================
